---- MODULE Spec2Model ----
(***************************************************************************)
(* A state-machine model of btrfsutil-rs: the safe layer over libbtrfsutil *)
(* (the "boundary").  The program side is translated from the Rust source; *)
(* the boundary is modelled by the filesystem state it reads and mutates   *)
(* (subvolume table, orphan list, default subvolume) and by the status     *)
(* codes it answers with.                                                  *)
(*                                                                         *)
(* The specifications share the variables:                                 *)
(*   Spec        subvolume operations on a filesystem that starts empty    *)
(*   SpecIter    the subvolume iterator over every subvolume tree          *)
(*   SpecInfo    the conversion of the raw subvolume information           *)
(*   SpecGlue    the marshalling of paths and status codes                 *)
(*   SpecSync    the two-phase sync                                        *)
(*   SpecQgroup  the quota-group inheritance specifier                     *)
(*   SpecRo      snapshots and the read-only flag                          *)
(*   SpecCreate  the public create                                         *)
(*   SpecPath    the path resolution of a subvolume                        *)
(*   SpecInherit create and snapshot with an inheritance specifier         *)
(*   SpecRace    create next to another process on the same filesystem     *)
(***************************************************************************)
EXTENDS Integers, Sequences, FiniteSets, TLC

VARIABLES
    subvols,    \* boundary: subvolume slot path -> id of the live subvolume there (NoId: none)
    orphans,    \* boundary: ids deleted but not yet cleaned up
    allocated,  \* boundary: number of subvolume ids handed out so far
    defaultId,  \* boundary: id of the default subvolume
    ro,         \* boundary: ids of the subvolumes whose read-only flag is set
    cwd,        \* process: current working directory
    cur,        \* caller: the Subvolume value the caller holds (NoSv: none)
    iter,       \* caller: the SubvolumeIterator value and the boundary cursor behind it
    ret,        \* outcome of the last operation
    calls,      \* boundary calls made by the last operation, in order
    qvals,      \* caller: QgroupInherit values, variable name -> handle held (NullPtr: none)
    heap        \* boundary: inheritance specifier allocations, handle -> state, groups and
                \* the number of btrfs_util_destroy_qgroup_inherit calls made on it

vars == <<subvols, orphans, allocated, defaultId, ro, cwd, cur, iter, ret, calls,
          qvals, heap>>

fsVars == <<subvols, orphans, allocated, defaultId, ro, cwd, cur, iter>>
qVars == <<qvals, heap>>

-----------------------------------------------------------------------------
(* Bounds of the model *)

MaxNewSubvols == 2
MaxTransid == 7
MaxDestroys == 2
MaxHandles == 2
MaxGroups == 2
MaxSecs == 3600
MaxPathLen == 3
MaxErrno == 30
MaxFrames == 3

-----------------------------------------------------------------------------
(* Program constants *)

BTRFS_FS_TREE_OBJECTID == 5

\* LibError discriminants (btrfs_util_error), in declaration order.
StopIteration == 1
NoMemory == 2
NotBtrfs == 4
NotSubvolume == 5
SubvolumeNotFound == 6
OpenFailed == 7
SearchFailed == 12
SubvolGetflagsFailed == 14
SubvolSetflagsFailed == 15
SubvolCreateFailed == 16
SnapCreateFailed == 17
SnapDestroyFailed == 18
DefaultSubvolFailed == 19
StartSyncFailed == 21
WaitSyncFailed == 22
FsInfoFailed == 26

\* SubvolumeIteratorFlags::POST_ORDER
POST_ORDER == 1
\* DeleteFlags::RECURSIVE
DELETE_RECURSIVE == 1

\* SnapshotFlags::READ_ONLY, SnapshotFlags::RECURSIVE
SNAPSHOT_READ_ONLY == 2
SNAPSHOT_RECURSIVE == 1

\* the length of the uuid fields of btrfs_util_subvolume_info
UuidLen == 16
\* Local.timestamp accepts nanoseconds below this
NanosLimit == 2000000000
\* Timelike::second counts within the minute
SecondsPerMinute == 60

-----------------------------------------------------------------------------
(* Paths: sequences of components; an absolute path starts with "/" *)

Mnt == <<"/", "mnt">>
PA == <<"/", "mnt", "a">>
PB == <<"/", "mnt", "a", "b">>
PC == <<"/", "mnt", "c">>
PD == <<"/", "mnt", "d">>
Tmp == <<"/", "tmp">>
Foobar == <<"/", "foobar">>

\* where subvolumes can be created
Slots == {PA, PB, PC}
\* the absolute paths a caller passes
AbsPaths == {Mnt, PA, PB, PC, PD, Tmp, Foobar}
Cwds == {Mnt, Tmp}

NoId == 0
NoSv == [id |-> 0, path |-> <<"?">>]
NullPtr == 0

\* the caller's QgroupInherit variables, the allocations the boundary can make, the
\* quota group ids added
QNames == {"q1", "q2"}
Handles == 1..MaxHandles
GroupIds == 1..MaxGroups
Unused == [state |-> "unused", groups |-> <<>>, destroys |-> 0]

IsAbs(p) == Len(p) > 0 /\ p[1] = "/"

IsPrefix(p, q) == Len(p) <= Len(q) /\ SubSeq(q, 1, Len(p)) = p

IsProperPrefix(p, q) == Len(p) < Len(q) /\ IsPrefix(p, q)

\* the path the kernel opens for a path argument: relative paths start at cwd
Resolve(dir, p) == IF IsAbs(p) THEN p ELSE IF p = <<>> THEN <<>> ELSE dir \o p

\* the part of an absolute path below the mount point
RelToMnt(p) == SubSeq(p, Len(Mnt) + 1, Len(p))

-----------------------------------------------------------------------------
(* Results *)

NoErr == [kind |-> "None", code |-> 0, glue |-> ""]
LibErr(c) == [kind |-> "Lib", code |-> c, glue |-> ""]
\* a GlueError: returned under the feature enable-glue-errors, a panic without it
GlueErr(g, c) == [kind |-> "Glue", code |-> c, glue |-> g]

\* enum LibError: each variant with the status code of the library that its discriminant is
\* declared as, in the order of the library's enumeration
Discriminants ==
    <<<<"Ok", "OK">>, <<"StopIteration", "ERROR_STOP_ITERATION">>,
      <<"NoMemory", "ERROR_NO_MEMORY">>, <<"InvalidArgument", "ERROR_INVALID_ARGUMENT">>,
      <<"NotBtrfs", "ERROR_NOT_BTRFS">>, <<"NotSubvolume", "ERROR_NOT_SUBVOLUME">>,
      <<"SubvolumeNotFound", "ERROR_SUBVOLUME_NOT_FOUND">>,
      <<"OpenFailed", "ERROR_OPEN_FAILED">>, <<"RmdirFailed", "ERROR_RMDIR_FAILED">>,
      <<"UnlinkFailed", "ERROR_UNLINK_FAILED">>, <<"StatFailed", "ERROR_STAT_FAILED">>,
      <<"StatfsFailed", "ERROR_STATFS_FAILED">>, <<"SearchFailed", "ERROR_SEARCH_FAILED">>,
      <<"InoLookupFailed", "ERROR_INO_LOOKUP_FAILED">>,
      <<"SubvolGetflagsFailed", "ERROR_SUBVOL_GETFLAGS_FAILED">>,
      <<"SubvolSetflagsFailed", "ERROR_SUBVOL_SETFLAGS_FAILED">>,
      <<"SubvolCreateFailed", "ERROR_SUBVOL_CREATE_FAILED">>,
      <<"SnapCreateFailed", "ERROR_SNAP_CREATE_FAILED">>,
      <<"SnapDestroyFailed", "ERROR_SNAP_DESTROY_FAILED">>,
      <<"DefaultSubvolFailed", "ERROR_DEFAULT_SUBVOL_FAILED">>,
      <<"SyncFailed", "ERROR_SYNC_FAILED">>,
      <<"StartSyncFailed", "ERROR_START_SYNC_FAILED">>,
      <<"WaitSyncFailed", "ERROR_WAIT_SYNC_FAILED">>,
      <<"GetSubvolInfoFailed", "ERROR_GET_SUBVOL_INFO_FAILED">>,
      <<"GetSubvolRootrefFailed", "ERROR_GET_SUBVOL_ROOTREF_FAILED">>,
      <<"InoLookupUserFailed", "ERROR_INO_LOOKUP_USER_FAILED">>,
      <<"FsInfoFailed", "ERROR_FS_INFO_FAILED">>>>

\* the arms of the match in LibError::try_from: a status code of the library and the
\* variant the arm returns
MatchArms ==
    <<<<"OK", "Ok">>, <<"ERROR_STOP_ITERATION", "StopIteration">>,
      <<"ERROR_NO_MEMORY", "NoMemory">>, <<"ERROR_INVALID_ARGUMENT", "InvalidArgument">>,
      <<"ERROR_NOT_BTRFS", "NotBtrfs">>, <<"ERROR_NOT_SUBVOLUME", "NotSubvolume">>,
      <<"ERROR_SUBVOLUME_NOT_FOUND", "SubvolumeNotFound">>,
      <<"ERROR_OPEN_FAILED", "OpenFailed">>, <<"ERROR_RMDIR_FAILED", "RmdirFailed">>,
      <<"ERROR_UNLINK_FAILED", "UnlinkFailed">>, <<"ERROR_STAT_FAILED", "StatFailed">>,
      <<"ERROR_STATFS_FAILED", "StatfsFailed">>, <<"ERROR_SEARCH_FAILED", "SearchFailed">>,
      <<"ERROR_INO_LOOKUP_FAILED", "InoLookupFailed">>,
      <<"ERROR_SUBVOL_GETFLAGS_FAILED", "SubvolGetflagsFailed">>,
      <<"ERROR_SUBVOL_SETFLAGS_FAILED", "SubvolSetflagsFailed">>,
      <<"ERROR_SUBVOL_CREATE_FAILED", "SubvolCreateFailed">>,
      <<"ERROR_SNAP_CREATE_FAILED", "SnapCreateFailed">>,
      <<"ERROR_SNAP_DESTROY_FAILED", "SnapDestroyFailed">>,
      <<"ERROR_DEFAULT_SUBVOL_FAILED", "DefaultSubvolFailed">>,
      <<"ERROR_SYNC_FAILED", "SyncFailed">>,
      <<"ERROR_START_SYNC_FAILED", "StartSyncFailed">>,
      <<"ERROR_WAIT_SYNC_FAILED", "WaitSyncFailed">>,
      <<"ERROR_GET_SUBVOL_INFO_FAILED", "GetSubvolInfoFailed">>,
      <<"ERROR_GET_SUBVOL_ROOTREF_FAILED", "GetSubvolRootrefFailed">>,
      <<"ERROR_INO_LOOKUP_USER_FAILED", "InoLookupUserFailed">>,
      <<"ERROR_FS_INFO_FAILED", "FsInfoFailed">>>>

\* the value of each status code of the library: its place in the enumeration, from 0
BindingValue ==
    [binding \in {Discriminants[i][2] : i \in 1..Len(Discriminants)} |->
        (CHOOSE i \in 1..Len(Discriminants) : Discriminants[i][2] = binding) - 1]

\* `variant as LibErrorCode` for each variant
Discriminant ==
    [variant \in {Discriminants[i][1] : i \in 1..Len(Discriminants)} |->
        BindingValue[Discriminants[CHOOSE i \in 1..Len(Discriminants) :
                                      Discriminants[i][1] = variant][2]]]

\* for each status code up to the last known one, the variant of the arm that matches,
\* "" when the wildcard arm does
MatchedVariant ==
    [errno \in 0..FsInfoFailed |->
        IF \E i \in 1..Len(MatchArms) : BindingValue[MatchArms[i][1]] = errno
        THEN MatchArms[CHOOSE i \in 1..Len(MatchArms) :
                          BindingValue[MatchArms[i][1]] = errno][2]
        ELSE ""]

\* a slip in the range test
LibErrorTryFrom_OffByOne(errno) ==
    IF errno >= FsInfoFailed THEN GlueErr("UnknownErrno", errno)
    ELSE IF MatchedVariant[errno] = "" THEN GlueErr("UnknownErrno", errno)
    ELSE LibErr(Discriminant[MatchedVariant[errno]])

\* impl TryFrom<LibErrorCode> for LibError
LibErrorTryFrom(errno) ==
    IF errno > FsInfoFailed THEN GlueErr("UnknownErrno", errno)
    ELSE IF MatchedVariant[errno] = "" THEN GlueErr("UnknownErrno", errno)
    ELSE LibErr(Discriminant[MatchedVariant[errno]])

\* a slip that lets the operation go on after a failed boundary call
UnsafeWrapper_IgnoreError(errcode) == NoErr

\* unsafe_wrapper!: a status code above zero becomes the error of the operation
UnsafeWrapper(errcode) == IF errcode > 0 THEN LibErrorTryFrom(errcode) ELSE NoErr

\* Subvolume::new
SubvolumeNew(id, path) == [id |-> id, path |-> path]

\* an operation without a further argument, a result that carries no further value
NoArg == "none"
NoVal == "none"

\* what an operation returned: arg is its argument besides self and path, val the value
\* it returned when that is not a Subvolume or a list
Outcome(op, tag, err, sv, list, path, self) ==
    [op |-> op, tag |-> tag, err |-> err, sv |-> sv, list |-> list, path |-> path,
     self |-> self, name |-> "", handle |-> NullPtr, arg |-> NoArg, val |-> NoVal]

\* the outcome of an operation on the QgroupInherit variable name: the handle it holds
\* afterwards and the list returned
QOutcome(op, tag, err, name, handle, list) ==
    [op |-> op, tag |-> tag, err |-> err, sv |-> NoSv, list |-> list, path |-> <<>>,
     self |-> NoSv, name |-> name, handle |-> handle, arg |-> NoArg, val |-> NoVal]

Idle == Outcome("none", "Idle", NoErr, NoSv, <<>>, <<>>, NoSv)

\* a boundary call: the function, its path and id arguments, the status code it returned
Call(fn, path, id, code) == [fn |-> fn, path |-> path, id |-> id, code |-> code]

-----------------------------------------------------------------------------
(* The boundary: what libbtrfsutil answers in a given filesystem state *)

LiveIds == {BTRFS_FS_TREE_OBJECTID} \cup {subvols[s] : s \in {t \in Slots : subvols[t] # NoId}}

\* the absolute path of the live subvolume with this id
PathOfId(id) ==
    IF id = BTRFS_FS_TREE_OBJECTID THEN Mnt
    ELSE CHOOSE s \in Slots : subvols[s] = id

\* what kind of thing an opened path is
PathKind(p) ==
    IF p = Mnt THEN "subvol"
    ELSE IF p \in Slots THEN (IF subvols[p] # NoId THEN "subvol" ELSE "missing")
    ELSE IF p = PD THEN "dir"
    ELSE IF p = Tmp THEN "notbtrfs"
    ELSE "missing"

\* the id of the subvolume rooted at an absolute path of kind "subvol"
IdAt(p) == IF p = Mnt THEN BTRFS_FS_TREE_OBJECTID ELSE subvols[p]

\* the id of the subvolume that contains an absolute path inside the filesystem
ContainingId(p) == IF PathKind(p) = "subvol" THEN IdAt(p) ELSE BTRFS_FS_TREE_OBJECTID

InBtrfs(p) == PathKind(p) \in {"subvol", "dir"}

\* btrfs_util_is_subvolume
BoundaryIsSubvolume(p) ==
    CASE PathKind(p) = "subvol" -> 0
      [] PathKind(p) = "dir" -> NotSubvolume
      [] PathKind(p) = "notbtrfs" -> NotBtrfs
      [] OTHER -> OpenFailed

\* btrfs_util_subvolume_id: the id of the subvolume containing the path
BoundarySubvolumeId(p) ==
    CASE InBtrfs(p) -> [code |-> 0, id |-> ContainingId(p)]
      [] PathKind(p) = "notbtrfs" -> [code |-> NotBtrfs, id |-> 0]
      [] OTHER -> [code |-> OpenFailed, id |-> 0]

\* btrfs_util_subvolume_path: id 0 stands for the subvolume containing the path
BoundarySubvolumePath(p, id) ==
    CASE PathKind(p) = "missing" -> [code |-> OpenFailed, path |-> <<>>]
      [] PathKind(p) = "notbtrfs" -> [code |-> NotBtrfs, path |-> <<>>]
      [] id = 0 /\ PathKind(p) = "dir" -> [code |-> NotSubvolume, path |-> <<>>]
      [] id = 0 -> [code |-> 0, path |-> RelToMnt(p)]
      [] id \in LiveIds -> [code |-> 0, path |-> RelToMnt(PathOfId(id))]
      [] OTHER -> [code |-> SubvolumeNotFound, path |-> <<>>]

-----------------------------------------------------------------------------
(* Subvolume operations (src/subvolume/subvol.rs) *)

\* Subvolume::is_subvolume_impl: Ok(()) or the library error
IsSubvolumeImpl(path) == UnsafeWrapper(BoundaryIsSubvolume(Resolve(cwd, path)))

\* a slip that resolves the id without asking whether the path is a subvolume root
GetImpl_SkipCheck(path) ==
    LET r == BoundarySubvolumeId(Resolve(cwd, path))
    IN  IF UnsafeWrapper(r.code) # NoErr THEN [err |-> UnsafeWrapper(r.code), sv |-> NoSv]
        ELSE [err |-> NoErr, sv |-> SubvolumeNew(r.id, path)]

\* Subvolume::get_impl
GetImpl(path) ==
    LET chk == IsSubvolumeImpl(path)
        r == BoundarySubvolumeId(Resolve(cwd, path))
    IN  IF chk # NoErr THEN [err |-> chk, sv |-> NoSv]
        ELSE IF UnsafeWrapper(r.code) # NoErr THEN [err |-> UnsafeWrapper(r.code), sv |-> NoSv]
        ELSE [err |-> NoErr, sv |-> SubvolumeNew(r.id, path)]

\* the boundary calls of Subvolume::get_impl: the id is resolved only for a subvolume root
GetCalls(path) ==
    LET p == Resolve(cwd, path)
        first == Call("is_subvolume", path, 0, BoundaryIsSubvolume(p))
    IN  IF IsSubvolumeImpl(path) # NoErr THEN <<first>>
        ELSE <<first, Call("subvolume_id", path, 0, BoundarySubvolumeId(p).code)>>

Tag(err) == IF err = NoErr THEN "Ok" ELSE "Err"

\* the caller goes on with the Subvolume that a lookup or a creation returned
Keep(sv) == cur' = IF sv # NoSv THEN sv ELSE cur

IsSubvolume(path) ==
    /\ ret' = Outcome("is_subvolume", Tag(IsSubvolumeImpl(path)), IsSubvolumeImpl(path),
                      NoSv, <<>>, path, NoSv)
    /\ calls' = <<Call("is_subvolume", path, 0, BoundaryIsSubvolume(Resolve(cwd, path)))>>
    /\ UNCHANGED <<fsVars, qVars>>

Get(path) ==
    LET r == GetImpl(path)
    IN  /\ ret' = Outcome("get", Tag(r.err), r.err, r.sv, <<>>, path, NoSv)
        /\ calls' = GetCalls(path)
        /\ Keep(r.sv)
        /\ UNCHANGED <<subvols, orphans, allocated, defaultId, cwd, iter, ro, qVars>>

\* impl TryFrom<u64> for Subvolume: the path is resolved from the working directory
TryFromU64Impl(src) ==
    LET r == BoundarySubvolumePath(cwd, src)
    IN  IF UnsafeWrapper(r.code) # NoErr THEN [err |-> UnsafeWrapper(r.code), sv |-> NoSv]
        ELSE [err |-> NoErr, sv |-> SubvolumeNew(src, r.path)]

TryFromU64(src) ==
    LET r == TryFromU64Impl(src)
    IN  /\ ret' = Outcome("try_from_u64", Tag(r.err), r.err, r.sv, <<>>, <<>>, NoSv)
        /\ calls' = <<Call("subvolume_path", cwd, src, BoundarySubvolumePath(cwd, src).code)>>
        /\ UNCHANGED <<fsVars, qVars>>

\* the slot above a slot, when it has one
ParentOk(p) == p # PB \/ subvols[PA] # NoId

\* the subvolume that holds the directory entry of a slot is not read-only
ParentWritable(p) == (IF p = PB THEN subvols[PA] ELSE BTRFS_FS_TREE_OBJECTID) \notin ro

\* btrfs_util_create_subvolume can succeed here
CanCreate(p) ==
    /\ p \in Slots /\ subvols[p] = NoId /\ ParentOk(p) /\ ParentWritable(p)
    /\ allocated < MaxNewSubvols

\* Subvolume::create_impl: the boundary creation call, then a fresh Subvolume::get
CreateImpl(path) ==
    \E fail \in BOOLEAN :
        LET p == Resolve(cwd, path)
            code == IF CanCreate(p) /\ ~fail THEN 0 ELSE SubvolCreateFailed
        IN  /\ subvols' = IF code = 0
                          THEN [subvols EXCEPT ![p] = BTRFS_FS_TREE_OBJECTID + allocated + 1]
                          ELSE subvols
            /\ allocated' = IF code = 0 THEN allocated + 1 ELSE allocated
            /\ UNCHANGED <<orphans, defaultId, cwd, iter, ro, qVars>>
            /\ IF UnsafeWrapper(code) # NoErr
               THEN /\ ret' = Outcome("create", "Err", UnsafeWrapper(code), NoSv, <<>>, path, NoSv)
                    /\ calls' = <<Call("create_subvolume", path, 0, code)>>
                    /\ cur' = cur
               ELSE /\ ret' = Outcome("create", Tag(GetImpl(path)'.err), GetImpl(path)'.err,
                                      GetImpl(path)'.sv, <<>>, path, NoSv)
                    /\ calls' = <<Call("create_subvolume", path, 0, code)>> \o GetCalls(path)'
                    /\ Keep(GetImpl(path)'.sv)

\* the live subvolumes nested below an absolute path
Nested(p) == {s \in Slots : subvols[s] # NoId /\ IsProperPrefix(p, s)}

\* btrfs_util_delete_subvolume: the status code in the current filesystem state
BoundaryDeleteCode(p, flags) ==
    CASE PathKind(p) = "missing" -> OpenFailed
      [] PathKind(p) = "notbtrfs" -> NotBtrfs
      [] PathKind(p) = "dir" -> NotSubvolume
      [] p = Mnt -> SnapDestroyFailed
      [] defaultId \in {subvols[s] : s \in Nested(p) \cup {p}} -> SnapDestroyFailed
      [] Nested(p) # {} /\ flags # DELETE_RECURSIVE -> SnapDestroyFailed
      [] OTHER -> 0

\* Subvolume::delete_impl
Delete(flags) ==
    \E fail \in BOOLEAN :
        LET p == Resolve(cwd, cur.path)
            flags_val == IF flags = "None" THEN 0 ELSE DELETE_RECURSIVE
            code == IF fail THEN SnapDestroyFailed ELSE BoundaryDeleteCode(p, flags_val)
            gone == Nested(p) \cup {p}
        IN  /\ cur # NoSv
            /\ subvols' = IF code = 0 THEN [s \in Slots |-> IF s \in gone THEN NoId ELSE subvols[s]]
                          ELSE subvols
            /\ orphans' = IF code = 0 THEN orphans \cup {subvols[s] : s \in gone} ELSE orphans
            /\ ret' = Outcome("delete", Tag(UnsafeWrapper(code)), UnsafeWrapper(code), NoSv, <<>>,
                              cur.path, cur)
            /\ calls' = <<Call("delete_subvolume", cur.path, flags_val, code)>>
            /\ UNCHANGED <<allocated, defaultId, cwd, cur, iter, ro, qVars>>

\* a finite set of numbers as the ascending sequence the tree search returns
RECURSIVE Ascending(_)
Ascending(S) ==
    IF S = {} THEN <<>>
    ELSE LET m == CHOOSE x \in S : \A y \in S : x <= y
         IN  <<m>> \o Ascending(S \ {m})

\* a slip in the slice length: the last id of the buffer is not copied
DeletedSubvolumes_ShortSlice(ids, fs_root) ==
    [i \in 1..(Len(ids) - 1) |-> SubvolumeNew(ids[i], fs_root)]

\* Subvolume::deleted: one Subvolume per id of the boundary's buffer, carrying fs_root
DeletedSubvolumes(ids, fs_root) == [i \in 1..Len(ids) |-> SubvolumeNew(ids[i], fs_root)]

\* a slip that takes a missing buffer for an empty one
DeletedImpl_NullIsEmpty(code, ptr_null, count, ids, fs_root, frees) ==
    IF UnsafeWrapper(code) # NoErr
    THEN [tag |-> "Err", err |-> UnsafeWrapper(code), list |-> <<>>, freed |-> 0]
    ELSE IF count = 0 \/ ptr_null
    THEN [tag |-> "Ok", err |-> NoErr, list |-> <<>>, freed |-> 0]
    ELSE [tag |-> "Ok", err |-> NoErr,
          list |-> DeletedSubvolumes(SubSeq(ids, 1, count), fs_root),
          freed |-> IF frees THEN 1 ELSE 0]

\* deleted once the boundary has answered with a status code, a buffer pointer and a
\* count: an empty list for count 0, NullPointerReceived for a missing buffer, else the
\* first count ids of the buffer; frees tells whether the implementation frees the buffer
\* it copied (subvol.rs does, privileged.rs does not); freed counts the calls of free
DeletedImpl(code, ptr_null, count, ids, fs_root, frees) ==
    IF UnsafeWrapper(code) # NoErr
    THEN [tag |-> "Err", err |-> UnsafeWrapper(code), list |-> <<>>, freed |-> 0]
    ELSE IF count = 0
    THEN [tag |-> "Ok", err |-> NoErr, list |-> <<>>, freed |-> 0]
    ELSE IF ptr_null
    THEN [tag |-> "Err", err |-> GlueErr("NullPointerReceived", 0), list |-> <<>>,
          freed |-> 0]
    ELSE [tag |-> "Ok", err |-> NoErr,
          list |-> DeletedSubvolumes(SubSeq(ids, 1, count), fs_root),
          freed |-> IF frees THEN 1 ELSE 0]

\* btrfs_util_deleted_subvolumes: the ids awaiting cleanup in a buffer it allocates, no
\* buffer when there are none or when it fails; null is a boundary that reports a count
\* and hands back no buffer
BoundaryDeleted(p, fail, null) ==
    LET code == CASE PathKind(p) = "missing" -> OpenFailed
                  [] PathKind(p) = "notbtrfs" -> NotBtrfs
                  [] fail -> SearchFailed
                  [] OTHER -> 0
        ids == IF code = 0 THEN Ascending(orphans) ELSE <<>>
    IN  [code |-> code, count |-> Len(ids), ptr_null |-> Len(ids) = 0 \/ null,
         ids |-> IF null THEN <<>> ELSE ids]

\* Subvolume::deleted
Deleted(fs_root) ==
    \E fail, null \in BOOLEAN :
        LET b == BoundaryDeleted(Resolve(cwd, fs_root), fail, null)
            r == DeletedImpl(b.code, b.ptr_null, b.count, b.ids, fs_root, TRUE)
        IN  /\ null => b.count > 0
            /\ ret' = [Outcome("deleted", r.tag, r.err, NoSv, r.list, fs_root, NoSv)
                          EXCEPT !.arg = b]
            /\ calls' = <<Call("deleted_subvolumes", fs_root, 0, b.code)>>
                          \o [i \in 1..r.freed |-> Call("free", fs_root, 0, 0)]
            /\ UNCHANGED <<fsVars, qVars>>

\* PrivilegedSubvolume::deleted: the Subvolumes it builds carry the id alone
PrivilegedDeleted(path) ==
    \E fail, null \in BOOLEAN :
        LET b == BoundaryDeleted(Resolve(cwd, path), fail, null)
            r == DeletedImpl(b.code, b.ptr_null, b.count, b.ids, <<>>, FALSE)
        IN  /\ null => b.count > 0
            /\ ret' = [Outcome("privileged_deleted", r.tag, r.err, NoSv, r.list, path, NoSv)
                          EXCEPT !.arg = b]
            /\ calls' = <<Call("deleted_subvolumes", path, 0, b.code)>>
                          \o [i \in 1..r.freed |-> Call("free", path, 0, 0)]
            /\ UNCHANGED <<fsVars, qVars>>

\* Subvolume::get_default_impl
GetDefaultImpl(path, code, id) ==
    IF UnsafeWrapper(code) # NoErr THEN [err |-> UnsafeWrapper(code), sv |-> NoSv]
    ELSE [err |-> NoErr, sv |-> SubvolumeNew(id, path)]

GetDefault(path) ==
    \E fail \in BOOLEAN :
        LET p == Resolve(cwd, path)
            code == CASE PathKind(p) = "missing" -> OpenFailed
                      [] PathKind(p) = "notbtrfs" -> NotBtrfs
                      [] fail -> SearchFailed
                      [] OTHER -> 0
            r == GetDefaultImpl(path, code, defaultId)
        IN  /\ ret' = Outcome("get_default", Tag(r.err), r.err, r.sv, <<>>, path, NoSv)
            /\ calls' = <<Call("get_default_subvolume", path, 0, code)>>
            /\ UNCHANGED <<fsVars, qVars>>

\* Subvolume::set_default: id 0 stands for the subvolume containing the path
SetDefault ==
    \E fail \in BOOLEAN :
        LET p == Resolve(cwd, cur.path)
            target == IF cur.id = 0 THEN (IF PathKind(p) = "subvol" THEN IdAt(p) ELSE NoId)
                      ELSE cur.id
            code == CASE PathKind(p) = "missing" -> OpenFailed
                      [] PathKind(p) = "notbtrfs" -> NotBtrfs
                      [] cur.id = 0 /\ PathKind(p) = "dir" -> NotSubvolume
                      [] fail \/ target \notin LiveIds -> DefaultSubvolFailed
                      [] OTHER -> 0
        IN  /\ cur # NoSv
            /\ defaultId' = IF code = 0 THEN target ELSE defaultId
            /\ ret' = Outcome("set_default", Tag(UnsafeWrapper(code)), UnsafeWrapper(code), NoSv,
                              <<>>, cur.path, cur)
            /\ calls' = <<Call("set_default_subvolume", cur.path, cur.id, code)>>
            /\ UNCHANGED <<subvols, orphans, allocated, cwd, cur, iter, ro, qVars>>

\* the filesystem's background cleaner reclaims a deleted subvolume
Cleanup ==
    \E id \in orphans :
        /\ orphans' = orphans \ {id}
        /\ UNCHANGED <<subvols, allocated, defaultId, cwd, cur, iter, ret, calls, ro, qVars>>

-----------------------------------------------------------------------------
(* The subvolume iterator (src/subvolume/iterator.rs) *)

NoIter == [state |-> "none", open |-> 0, destroys |-> 0, root |-> <<>>, flags |-> "None",
           queue |-> <<>>, yielded |-> <<>>]

\* the live subvolumes directly below an absolute path: no live subvolume in between
Children(p) ==
    {s \in Slots : /\ subvols[s] # NoId /\ IsProperPrefix(p, s)
                   /\ ~\E t \in Slots : subvols[t] # NoId /\ IsProperPrefix(p, t)
                                                        /\ IsProperPrefix(t, s)}

\* the cursor's walk below a subvolume: children by ascending id, each before (pre-order)
\* or after (post-order) its own descendants; paths are relative to the walk's root
RECURSIVE Walk(_, _, _, _)
Walk(root, p, post, todo) ==
    IF todo = <<>> THEN <<>>
    ELSE LET c == PathOfId(todo[1])
             self == <<[id |-> todo[1], path |-> SubSeq(c, Len(root) + 1, Len(c))]>>
             below == Walk(root, c, post, Ascending({subvols[x] : x \in Children(c)}))
         IN  (IF post THEN below \o self ELSE self \o below)
             \o Walk(root, p, post, Tail(todo))

BoundaryWalk(root, flags_val) ==
    Walk(root, root, flags_val = POST_ORDER, Ascending({subvols[x] : x \in Children(root)}))

\* a slip that drops the caller's flags
FlagsVal_Ignored(flags) == 0

\* SubvolumeIterator::new_impl: the flag bits handed to the boundary
FlagsVal(flags) == IF flags = "None" THEN 0 ELSE POST_ORDER

\* SubvolumeIterator::new_impl: the boundary opens a cursor on a subvolume root; the
\* cursor stays open behind the returned iterator
IterNew(path, flags) ==
    \E fail \in BOOLEAN :
        LET p == Resolve(cwd, path)
            code == CASE BoundaryIsSubvolume(p) # 0 -> BoundaryIsSubvolume(p)
                      [] fail -> NoMemory
                      [] OTHER -> 0
        IN  /\ iter.state # "live"
            /\ iter' = IF UnsafeWrapper(code) # NoErr THEN NoIter
                       ELSE [state |-> "live", open |-> 1, destroys |-> 0, root |-> path,
                             flags |-> flags, queue |-> BoundaryWalk(p, FlagsVal(flags)),
                             yielded |-> <<>>]
            /\ ret' = Outcome("iter_new", Tag(UnsafeWrapper(code)), UnsafeWrapper(code), NoSv,
                              <<>>, path, NoSv)
            /\ calls' = <<Call("create_subvolume_iterator", path, FlagsVal(flags), code)>>
            /\ UNCHANGED <<subvols, orphans, allocated, defaultId, cwd, cur, ro, qVars>>

\* impl TryFrom<&Subvolume> for SubvolumeIterator: new_impl with no flags
IterTryFrom == cur # NoSv /\ IterNew(cur.path, "None")

Item(tag, err, sv) == [tag |-> tag, err |-> err, sv |-> sv]

\* a slip that ends the sequence on every failure of the cursor
NextItem_Swallow(code, pathNull, id, got, byId) ==
    IF UnsafeWrapper(code) # NoErr THEN Item("None", NoErr, NoSv)
    ELSE Item(Tag(got.err), got.err, got.sv)

\* Iterator::next: what the caller receives for the cursor's answer; got is the result
\* of Subvolume::get on the returned path, byId of Subvolume::try_from on the returned id
NextItem(code, pathNull, id, got, byId) ==
    IF UnsafeWrapper(code) # NoErr
    THEN IF UnsafeWrapper(code) = LibErr(StopIteration) THEN Item("None", NoErr, NoSv)
         ELSE Item("Err", UnsafeWrapper(code), NoSv)
    ELSE IF ~pathNull THEN Item(Tag(got.err), got.err, got.sv)
    ELSE IF id # 0 THEN Item(Tag(byId.err), byId.err, byId.sv)
    ELSE Item("Panic", NoErr, NoSv)

\* the status codes the cursor's next can answer with besides success and the end
CursorFailures == {SearchFailed, FsInfoFailed + 1}

\* Iterator::next: the cursor always returns the path it was asked for
IterNext ==
    \E code \in (IF iter.queue = <<>> THEN {StopIteration} ELSE {0}) \cup CursorFailures :
        LET elem == IF code = 0 THEN iter.queue[1] ELSE [id |-> 0, path |-> <<>>]
            item == NextItem(code, FALSE, elem.id, GetImpl(elem.path),
                             TryFromU64Impl(elem.id))
        IN  /\ iter.state = "live"
            /\ Len(iter.yielded) < MaxNewSubvols + 2
            /\ iter' = [iter EXCEPT !.queue = IF code = 0 THEN Tail(@) ELSE @,
                                    !.yielded = Append(@, item)]
            /\ ret' = Outcome("iter_next", item.tag, item.err, item.sv, <<>>, elem.path, NoSv)
            /\ calls' = <<Call("subvolume_iterator_next", elem.path, elem.id, code)>>
                         \o (IF code = 0 THEN GetCalls(elem.path) ELSE <<>>)
            /\ UNCHANGED <<subvols, orphans, allocated, defaultId, cwd, cur, ro, qVars>>

\* a slip that forgets the cursor
DropIterator_Leak(it) == [it EXCEPT !.state = "dropped"]

\* impl Drop for SubvolumeIterator: btrfs_util_destroy_subvolume_iterator
DropIterator(it) == [it EXCEPT !.state = "dropped", !.open = @ - 1, !.destroys = @ + 1]

IterDrop ==
    /\ iter.state = "live"
    /\ iter' = DropIterator(iter)
    /\ ret' = Outcome("iter_drop", "Ok", NoErr, NoSv, <<>>, iter.root, NoSv)
    /\ calls' = <<Call("destroy_subvolume_iterator", iter.root, 0, 0)>>
    /\ UNCHANGED <<subvols, orphans, allocated, defaultId, cwd, cur, ro, qVars>>

-----------------------------------------------------------------------------

Init ==
    /\ subvols = [s \in Slots |-> NoId]
    /\ orphans = {}
    /\ allocated = 0
    /\ defaultId = BTRFS_FS_TREE_OBJECTID
    /\ ro = {}
    /\ cwd \in Cwds
    /\ cur = NoSv
    /\ iter = NoIter
    /\ ret = Idle
    /\ calls = <<>>
    /\ qvals = [n \in QNames |-> NullPtr]
    /\ heap = [h \in Handles |-> Unused]

Ids == 0..(BTRFS_FS_TREE_OBJECTID + MaxNewSubvols)

Next ==
    \/ \E p \in AbsPaths : IsSubvolume(p)
    \/ \E p \in AbsPaths : Get(p)
    \/ \E id \in Ids : TryFromU64(id)
    \/ \E p \in Slots \cup {Tmp} : CreateImpl(p)
    \/ \E f \in {"None", "RECURSIVE"} : Delete(f)
    \/ \E p \in {Mnt, Tmp} : Deleted(p)
    \/ \E p \in {Mnt, Tmp} : PrivilegedDeleted(p)
    \/ \E p \in {Mnt, PA, Tmp} : GetDefault(p)
    \/ SetDefault
    \/ Cleanup

Spec == Init /\ [][Next]_vars

\* the subvolume trees the iterator and sync are run on: every tree that creations and deletions
\* can leave within the bound, ids in order of creation
Trees ==
    {t \in [Slots -> {NoId} \cup ((BTRFS_FS_TREE_OBJECTID + 1)..(BTRFS_FS_TREE_OBJECTID + MaxNewSubvols))] :
        /\ \A x, y \in Slots : (x # y /\ t[x] # NoId) => t[x] # t[y]
        /\ t[PB] # NoId => (t[PA] # NoId /\ t[PA] < t[PB])}

InitTree ==
    /\ subvols \in Trees
    /\ orphans = {}
    /\ allocated = MaxNewSubvols
    /\ defaultId = BTRFS_FS_TREE_OBJECTID
    /\ ro = {}
    /\ cwd \in Cwds
    /\ cur \in {NoSv, SubvolumeNew(BTRFS_FS_TREE_OBJECTID, Mnt)}
    /\ iter = NoIter
    /\ ret = Idle
    /\ calls = <<>>
    /\ qvals = [n \in QNames |-> NullPtr]
    /\ heap = [h \in Handles |-> Unused]

NextIter ==
    \/ \E p \in {Mnt, PA, PD, Tmp} : \E f \in {"None", "POST_ORDER"} : IterNew(p, f)
    \/ IterTryFrom
    \/ IterNext
    \/ IterDrop

SpecIter == InitTree /\ [][NextIter]_vars

-----------------------------------------------------------------------------
(* Subvolume information (src/subvolume/subvol_info.rs) *)

\* Option<T>
None == <<>>
Some(v) == <<v>>

\* a UUID field of the raw structure: UuidLen bytes
Uuid(last) == [i \in 1..UuidLen |-> IF i = UuidLen THEN last ELSE 0]
NilBytes == Uuid(0)

\* Uuid::from_slice: fails on a slice that is not UuidLen bytes long
UuidFromSlice(bytes) ==
    IF Len(bytes) # UuidLen THEN [ok |-> FALSE, uuid |-> NilBytes]
    ELSE [ok |-> TRUE, uuid |-> bytes]

\* Uuid::is_nil
IsNil(uuid) == \A i \in 1..UuidLen : uuid[i] = 0

\* a raw timespec
Timespec(sec, nsec) == [tv_sec |-> sec, tv_nsec |-> nsec]

\* Local.timestamp(secs, nsecs): the date and time of a timespec; it panics on seconds
\* outside the representable range (MaxSecs on the model's scale) and on nanoseconds
\* from NanosLimit up
Representable(ts) ==
    /\ ts.tv_sec >= 0 - MaxSecs /\ ts.tv_sec <= MaxSecs
    /\ ts.tv_nsec >= 0 /\ ts.tv_nsec < NanosLimit

LocalTimestamp(ts) == [secs |-> ts.tv_sec, nanos |-> ts.tv_nsec]

\* Timelike::second and Timelike::nanosecond: the second within the minute (local time
\* is a whole number of minutes off UTC) and the nanosecond within the second
Second(dt) == dt.secs % SecondsPerMinute
Nanosecond(dt) == dt.nanos

\* a slip that wraps every value
ZeroIsNone_AlwaysSome(v) == Some(v)

\* the zero-is-none convention of parent_id, dir_id, stransid, rtransid
ZeroIsNone(v) == IF v = 0 THEN None ELSE Some(v)

\* the all-zero-is-none convention of parent_uuid and received_uuid
NilIsNone(uuid) == IF IsNil(uuid) THEN None ELSE Some(uuid)

\* the convention applied to stime and rtime
TimeOrNone(dt) == IF Nanosecond(dt) = 0 /\ Second(dt) = 0 THEN None ELSE Some(dt)

\* impl TryFrom<&Subvolume> for SubvolumeInfo: code and raw are the boundary's answer;
\* released counts the releases of the scratch structure that Box::into_raw handed out
SubvolumeInfoTryFrom(src, code, raw) ==
    IF UnsafeWrapper(code) # NoErr
    THEN [tag |-> "Err", err |-> UnsafeWrapper(code), info |-> NoVal, released |-> 0]
    ELSE IF \/ ~UuidFromSlice(raw.uuid).ok
            \/ ~UuidFromSlice(raw.parent_uuid).ok
            \/ ~UuidFromSlice(raw.received_uuid).ok
    THEN [tag |-> "Panic", err |-> NoErr, info |-> NoVal, released |-> 1]
    ELSE IF \E f \in {"ctime", "otime", "stime", "rtime"} : ~Representable(raw[f])
    THEN [tag |-> "Panic", err |-> NoErr, info |-> NoVal, released |-> 1]
    ELSE [tag |-> "Ok", err |-> NoErr, released |-> 1,
          info |-> [id |-> raw.id,
                    path |-> src.path,
                    parent_id |-> ZeroIsNone(raw.parent_id),
                    dir_id |-> ZeroIsNone(raw.dir_id),
                    flags |-> raw.flags,
                    uuid |-> UuidFromSlice(raw.uuid).uuid,
                    parent_uuid |-> NilIsNone(UuidFromSlice(raw.parent_uuid).uuid),
                    received_uuid |-> NilIsNone(UuidFromSlice(raw.received_uuid).uuid),
                    generation |-> raw.generation,
                    ctransid |-> raw.ctransid,
                    otransid |-> raw.otransid,
                    stransid |-> ZeroIsNone(raw.stransid),
                    rtransid |-> ZeroIsNone(raw.rtransid),
                    ctime |-> LocalTimestamp(raw.ctime),
                    otime |-> LocalTimestamp(raw.otime),
                    stime |-> TimeOrNone(LocalTimestamp(raw.stime)),
                    rtime |-> TimeOrNone(LocalTimestamp(raw.rtime))]]

\* what the filesystem can hold in the fields of a subvolume's item: ids and transaction
\* ids, uuids, timespecs (a received subvolume's stime is whatever the sender wrote)
NumVals == {0, 1, BTRFS_FS_TREE_OBJECTID}
UuidVals == {NilBytes, Uuid(1), Uuid(255)}
TimeVals ==
    {Timespec(s, n) : s \in {0 - 1, 0, 1, SecondsPerMinute, SecondsPerMinute + 1,
                             MaxSecs, MaxSecs + 1},
                      n \in {0, 1}}
        \cup {Timespec(1, NanosLimit)}

\* a subvolume that was created empty and never received; the top-level subvolume has no
\* parent and no directory holding it
RawBase(id) ==
    [id |-> id,
     parent_id |-> IF id = BTRFS_FS_TREE_OBJECTID THEN 0 ELSE BTRFS_FS_TREE_OBJECTID,
     dir_id |-> IF id = BTRFS_FS_TREE_OBJECTID THEN 0 ELSE 1,
     flags |-> 0,
     uuid |-> Uuid(1),
     parent_uuid |-> NilBytes,
     received_uuid |-> NilBytes,
     generation |-> 1, ctransid |-> 1, otransid |-> 1, stransid |-> 0, rtransid |-> 0,
     ctime |-> Timespec(1, 1), otime |-> Timespec(1, 1),
     stime |-> Timespec(0, 0), rtime |-> Timespec(0, 0)]

\* the structures btrfs_util_subvolume_info can fill in for a subvolume: RawBase with one
\* field changed; the top-level subvolume is neither a snapshot nor received
RawInfos(id) ==
    LET base == RawBase(id)
        top == id = BTRFS_FS_TREE_OBJECTID
        nums == {"flags", "generation", "ctransid", "otransid", "stransid", "rtransid"}
                    \cup (IF top THEN {} ELSE {"parent_id", "dir_id"})
        uuids == {"uuid"} \cup (IF top THEN {} ELSE {"parent_uuid", "received_uuid"})
        times == {"ctime", "otime", "stime", "rtime"}
    IN  {base}
            \cup {[base EXCEPT ![f] = v] : f \in nums, v \in NumVals}
            \cup {[base EXCEPT ![f] = v] : f \in uuids, v \in UuidVals}
            \cup {[base EXCEPT ![f] = v] : f \in times, v \in TimeVals}

\* btrfs_util_subvolume_info with a non-zero id: the path only has to lie in the filesystem
BoundarySubvolumeInfo(p, id) ==
    CASE PathKind(p) = "missing" -> OpenFailed
      [] PathKind(p) = "notbtrfs" -> NotBtrfs
      [] id \in LiveIds -> 0
      [] OTHER -> SubvolumeNotFound

\* Subvolume::info: the scratch structure is allocated, the boundary fills it in (the tree
\* search fails without CAP_SYS_ADMIN), and the structure is converted
Info ==
    \E fail \in BOOLEAN : \E raw \in RawInfos(cur.id) :
        LET p == Resolve(cwd, cur.path)
            code == IF fail THEN SearchFailed ELSE BoundarySubvolumeInfo(p, cur.id)
            r == SubvolumeInfoTryFrom(cur, code, raw)
        IN  /\ cur # NoSv
            /\ code # 0 => raw = RawBase(cur.id)
            /\ ret' = [Outcome("info", r.tag, r.err, NoSv, <<>>, cur.path, cur)
                          EXCEPT !.arg = raw, !.val = r.info]
            /\ calls' = <<Call("box_into_raw", cur.path, cur.id, 0),
                          Call("subvolume_info", cur.path, cur.id, code)>>
                          \o [i \in 1..r.released |-> Call("box_drop", cur.path, cur.id, 0)]
            /\ UNCHANGED <<fsVars, qVars>>

NextInfo ==
    \/ \E p \in {Mnt, PA, PB, PC} : Get(p)
    \/ Delete("None")
    \/ Info

SpecInfo == InitTree /\ [][NextInfo]_vars

-----------------------------------------------------------------------------
(* Marshalling of paths and status codes (src/common.rs, src/error/lib.rs) *)

\* the bytes paths are made of here: NUL, '/', 'a', the two bytes of U+00E9, and a byte
\* that no UTF-8 text contains
PathBytes == {0, 47, 97, 195, 169, 255}
BytePaths == UNION {[1..n -> PathBytes] : n \in 0..MaxPathLen}

Continuation(b) == b >= 128 /\ b <= 191

RECURSIVE Utf8Valid(_)
\* Path::to_str answers Some for these byte strings: well-formed UTF-8 (the finer rules on
\* overlong forms and surrogates concern none of PathBytes)
Utf8Valid(bytes) ==
    LET n == IF bytes = <<>> THEN 0
             ELSE IF bytes[1] < 128 THEN 1
             ELSE IF bytes[1] >= 194 /\ bytes[1] <= 223 THEN 2
             ELSE IF bytes[1] >= 224 /\ bytes[1] <= 239 THEN 3
             ELSE IF bytes[1] >= 240 /\ bytes[1] <= 244 THEN 4
             ELSE 0
    IN  IF bytes = <<>> THEN TRUE
        ELSE IF n = 0 \/ Len(bytes) < n THEN FALSE
        ELSE /\ \A i \in 2..n : Continuation(bytes[i])
             /\ Utf8Valid(SubSeq(bytes, n + 1, Len(bytes)))

\* a slip that marshals what to_string_lossy would give: each byte outside UTF-8 replaced
\* by U+FFFD
PathToCstr_Lossy(path) ==
    IF \E i \in 1..Len(path) : path[i] = 0
    THEN [tag |-> "Err", err |-> GlueErr("NulError", 0), bytes |-> <<>>]
    ELSE IF ~Utf8Valid(path)
    THEN [tag |-> "Ok", err |-> NoErr, bytes |-> <<239, 191, 189>>]
    ELSE [tag |-> "Ok", err |-> NoErr, bytes |-> path]

\* path_to_cstr: Path::to_str, then CString::new, which refuses an interior NUL
PathToCstr(path) ==
    IF ~Utf8Valid(path)
    THEN [tag |-> "Err", err |-> GlueErr("BadPath", 0), bytes |-> <<>>]
    ELSE IF \E i \in 1..Len(path) : path[i] = 0
    THEN [tag |-> "Err", err |-> GlueErr("NulError", 0), bytes |-> <<>>]
    ELSE [tag |-> "Ok", err |-> NoErr, bytes |-> path]

\* optional_into_path_to_cstr: "/" stands in for an absent path
OptionalIntoPathToCstr(path) == PathToCstr(IF path = None THEN <<47>> ELSE path[1])

PathToCstrCall(path) ==
    LET r == PathToCstr(path)
    IN  /\ ret' = [Outcome("path_to_cstr", r.tag, r.err, NoSv, <<>>, <<>>, NoSv)
                      EXCEPT !.arg = path, !.val = r.bytes]
        /\ calls' = <<>>
        /\ UNCHANGED <<fsVars, qVars>>

OptionalIntoPathToCstrCall(path) ==
    LET r == OptionalIntoPathToCstr(path)
    IN  /\ ret' = [Outcome("optional_into_path_to_cstr", r.tag, r.err, NoSv, <<>>, <<>>, NoSv)
                      EXCEPT !.arg = path, !.val = r.bytes]
        /\ calls' = <<>>
        /\ UNCHANGED <<fsVars, qVars>>

\* LibError::try_from on a status code; name is the variant returned
LibErrorTryFromCall(errno) ==
    LET r == LibErrorTryFrom(errno)
    IN  /\ ret' = [Outcome("lib_error_try_from", IF r.kind = "Lib" THEN "Ok" ELSE "Err",
                           r, NoSv, <<>>, <<>>, NoSv)
                      EXCEPT !.arg = errno,
                             !.name = IF r.kind = "Lib" THEN MatchedVariant[errno] ELSE ""]
        /\ calls' = <<>>
        /\ UNCHANGED <<fsVars, qVars>>

InitGlue == Init /\ cwd = Mnt

NextGlue ==
    \/ \E path \in BytePaths : PathToCstrCall(path)
    \/ \E path \in {None} \cup {Some(b) : b \in BytePaths} : OptionalIntoPathToCstrCall(path)
    \/ \E errno \in 0..MaxErrno : LibErrorTryFromCall(errno)

SpecGlue == InitGlue /\ [][NextGlue]_vars

-----------------------------------------------------------------------------
(* Snapshots and the read-only flag (src/subvolume/subvol.rs) *)

\* the bit of a flag is set in the flag bits
HasFlag(bits, flag) == (bits \div flag) % 2 = 1

\* the flags a caller can pass: none, or any union of READ_ONLY and RECURSIVE
SnapshotFlagSets == {None} \cup {Some(b) : b \in 0..(SNAPSHOT_READ_ONLY + SNAPSHOT_RECURSIVE)}

\* a slip that drops the caller's flags
SnapshotFlagsVal_Dropped(flags) == 0

\* Subvolume::snapshot_impl: the flag bits handed to the boundary
SnapshotFlagsVal(flags) == IF flags = None THEN 0 ELSE flags[1]

\* Subvolume::snapshot_impl: the boundary creates the snapshot, read-only when the
\* READ_ONLY bit is set, then a fresh Subvolume::get of the destination; a recursive
\* snapshot is taken here only of a source that has no subvolumes nested in it
Snapshot(dest, flags) ==
    \E fail \in BOOLEAN :
        LET src == Resolve(cwd, cur.path)
            d == Resolve(cwd, dest)
            flags_val == SnapshotFlagsVal(flags)
            code == IF PathKind(src) = "subvol" /\ CanCreate(d) /\ ~fail THEN 0
                    ELSE SnapCreateFailed
            id == BTRFS_FS_TREE_OBJECTID + allocated + 1
        IN  /\ cur # NoSv
            /\ HasFlag(flags_val, SNAPSHOT_RECURSIVE) => Nested(src) = {}
            /\ subvols' = IF code = 0 THEN [subvols EXCEPT ![d] = id] ELSE subvols
            /\ allocated' = IF code = 0 THEN allocated + 1 ELSE allocated
            /\ ro' = IF code = 0 /\ HasFlag(flags_val, SNAPSHOT_READ_ONLY) THEN ro \cup {id}
                     ELSE ro
            /\ UNCHANGED <<orphans, defaultId, cwd, iter, qVars>>
            /\ IF UnsafeWrapper(code) # NoErr
               THEN /\ ret' = [Outcome("snapshot", "Err", UnsafeWrapper(code), NoSv, <<>>,
                                       dest, cur) EXCEPT !.arg = flags]
                    /\ calls' = <<Call("create_snapshot", dest, flags_val, code)>>
                    /\ cur' = cur
               ELSE /\ ret' = [Outcome("snapshot", Tag(GetImpl(dest)'.err), GetImpl(dest)'.err,
                                       GetImpl(dest)'.sv, <<>>, dest, cur) EXCEPT !.arg = flags]
                    /\ calls' = <<Call("create_snapshot", dest, flags_val, code)>>
                                   \o GetCalls(dest)'
                    /\ Keep(GetImpl(dest)'.sv)

\* btrfs_util_get_subvolume_read_only: the flag of the subvolume whose root the path is
BoundaryGetReadOnly(p) ==
    CASE PathKind(p) = "subvol" -> [code |-> 0, ro |-> IdAt(p) \in ro]
      [] PathKind(p) = "missing" -> [code |-> OpenFailed, ro |-> FALSE]
      [] OTHER -> [code |-> SubvolGetflagsFailed, ro |-> FALSE]

\* a slip that leaves the answer at the value the variable is declared with
IsRoImpl_Initial(sv) ==
    LET r == BoundaryGetReadOnly(Resolve(cwd, sv.path))
    IN  IF UnsafeWrapper(r.code) # NoErr THEN [err |-> UnsafeWrapper(r.code), val |-> NoVal]
        ELSE [err |-> NoErr, val |-> FALSE]

\* Subvolume::is_ro
IsRoImpl(sv) ==
    LET r == BoundaryGetReadOnly(Resolve(cwd, sv.path))
    IN  IF UnsafeWrapper(r.code) # NoErr THEN [err |-> UnsafeWrapper(r.code), val |-> NoVal]
        ELSE [err |-> NoErr, val |-> r.ro]

IsRo ==
    LET r == IsRoImpl(cur)
    IN  /\ cur # NoSv
        /\ ret' = [Outcome("is_ro", Tag(r.err), r.err, NoSv, <<>>, cur.path, cur)
                      EXCEPT !.val = r.val]
        /\ calls' = <<Call("get_subvolume_read_only", cur.path, 0,
                           BoundaryGetReadOnly(Resolve(cwd, cur.path)).code)>>
        /\ UNCHANGED <<fsVars, qVars>>

\* Subvolume::set_ro: the boundary sets or clears the flag of the subvolume at the path;
\* it refuses a caller that does not own the subvolume
SetRo(b) ==
    \E fail \in BOOLEAN :
        LET p == Resolve(cwd, cur.path)
            code == IF BoundaryGetReadOnly(p).code # 0 THEN BoundaryGetReadOnly(p).code
                    ELSE IF fail THEN SubvolSetflagsFailed ELSE 0
        IN  /\ cur # NoSv
            /\ ro' = IF code # 0 THEN ro
                     ELSE IF b THEN ro \cup {IdAt(p)} ELSE ro \ {IdAt(p)}
            /\ ret' = [Outcome("set_ro", Tag(UnsafeWrapper(code)), UnsafeWrapper(code), NoSv,
                               <<>>, cur.path, cur) EXCEPT !.arg = b]
            /\ calls' = <<Call("set_subvolume_read_only", cur.path, 0, code)>>
            /\ UNCHANGED <<subvols, orphans, allocated, defaultId, cwd, cur, iter, qVars>>

\* the caller creates a file below the path of the Subvolume it holds: the filesystem
\* refuses it in a read-only subvolume
CanWrite(sv) ==
    /\ InBtrfs(Resolve(cwd, sv.path))
    /\ ContainingId(Resolve(cwd, sv.path)) \notin ro

CreateFile ==
    /\ cur # NoSv
    /\ ret' = Outcome("create_file", IF CanWrite(cur) THEN "Ok" ELSE "Err", NoErr, NoSv, <<>>,
                      cur.path, cur)
    /\ calls' = <<>>
    /\ UNCHANGED <<fsVars, qVars>>

NextRo ==
    \/ \E p \in {PA, PB} : CreateImpl(p)
    \/ \E p \in {Mnt, PA, PB, PC} : Get(p)
    \/ \E d \in {PB, PC} : \E f \in SnapshotFlagSets : Snapshot(d, f)
    \/ IsRo
    \/ \E b \in BOOLEAN : SetRo(b)
    \/ CreateFile

SpecRo == InitGlue /\ [][NextRo]_vars

-----------------------------------------------------------------------------
(* Sync (src/sync.rs) *)

\* a slip that waits on the initial value of the transaction id
SyncImpl_ZeroTransid(path, startCode, transid, waitCode) ==
    IF UnsafeWrapper(startCode) # NoErr
    THEN [err |-> UnsafeWrapper(startCode),
          calls |-> <<Call("start_sync", path, transid, startCode)>>]
    ELSE [err |-> UnsafeWrapper(waitCode),
          calls |-> <<Call("start_sync", path, transid, startCode),
                      Call("wait_sync", path, 0, waitCode)>>]

\* sync_impl: startCode and transid are the boundary's answer to start-sync, waitCode
\* its answer to wait-sync; the id of a call is the transaction id it produced or took
SyncImpl(path, startCode, transid, waitCode) ==
    IF UnsafeWrapper(startCode) # NoErr
    THEN [err |-> UnsafeWrapper(startCode),
          calls |-> <<Call("start_sync", path, transid, startCode)>>]
    ELSE [err |-> UnsafeWrapper(waitCode),
          calls |-> <<Call("start_sync", path, transid, startCode),
                      Call("wait_sync", path, transid, waitCode)>>]

Sync(path) ==
    \E failStart, failWait \in BOOLEAN, t \in 1..MaxTransid :
        LET p == Resolve(cwd, path)
            startCode == CASE PathKind(p) = "missing" -> OpenFailed
                           [] PathKind(p) = "notbtrfs" -> StartSyncFailed
                           [] failStart -> StartSyncFailed
                           [] OTHER -> 0
            transid == IF startCode = 0 THEN t ELSE 0
            waitCode == IF failWait THEN WaitSyncFailed ELSE 0
            r == SyncImpl(path, startCode, transid, waitCode)
        IN  /\ ret' = Outcome("sync", Tag(r.err), r.err, NoSv, <<>>, path, NoSv)
            /\ calls' = r.calls
            /\ UNCHANGED <<fsVars, qVars>>

NextSync == \E p \in AbsPaths : Sync(p)

SpecSync == InitTree /\ [][NextSync]_vars

-----------------------------------------------------------------------------
(* Quota-group inheritance specifier (src/qgroup.rs) *)

\* boundary: the allocation the next create or reallocation returns; handles are not
\* reused, so that a stale handle never aliases a later allocation
HasFresh == \E h \in Handles : heap[h].state = "unused"
Fresh ==
    CHOOSE h \in Handles :
        /\ heap[h].state = "unused"
        /\ \A k \in Handles : heap[k].state = "unused" => h <= k

Live(h) == heap[h].state = "live"
Alive == ret.tag # "Abort"

\* QgroupInherit::create: wraps the pointer the boundary wrote
QgroupInheritCreate(code, ptr) ==
    IF UnsafeWrapper(code) # NoErr
    THEN [err |-> UnsafeWrapper(code), handle |-> NullPtr]
    ELSE [err |-> NoErr, handle |-> ptr]

QCreate(n) ==
    /\ Alive /\ qvals[n] = NullPtr /\ HasFresh
    /\ \E fail \in BOOLEAN :
        LET code == IF fail THEN NoMemory ELSE 0
            r == QgroupInheritCreate(code, IF fail THEN NullPtr ELSE Fresh)
        IN  /\ qvals' = [qvals EXCEPT ![n] = r.handle]
            /\ heap' = IF fail THEN heap
                       ELSE [heap EXCEPT ![Fresh] = [@ EXCEPT !.state = "live"]]
            /\ ret' = QOutcome("qgroup_create", Tag(r.err), r.err, n, r.handle, <<>>)
            /\ calls' = <<Call("create_qgroup_inherit", <<>>, r.handle, code)>>
    /\ UNCHANGED fsVars

\* the derived Clone of the tuple struct copies its raw pointer field
QgroupInheritClone(handle) == handle

QClone(src, dst) ==
    /\ Alive /\ qvals[src] # NullPtr /\ qvals[dst] = NullPtr
    /\ qvals' = [qvals EXCEPT ![dst] = QgroupInheritClone(qvals[src])]
    /\ ret' = QOutcome("qgroup_clone", "Ok", NoErr, dst, qvals[src], <<>>)
    /\ calls' = <<>>
    /\ UNCHANGED <<fsVars, heap>>

\* a move leaves the source variable without a value: no drop runs for it
QMove(src, dst) ==
    /\ Alive /\ qvals[src] # NullPtr /\ qvals[dst] = NullPtr
    /\ qvals' = [qvals EXCEPT ![dst] = qvals[src], ![src] = NullPtr]
    /\ ret' = QOutcome("qgroup_move", "Ok", NoErr, dst, qvals[src], <<>>)
    /\ calls' = <<>>
    /\ UNCHANGED <<fsVars, heap>>

\* add_impl: held is self.0, code and returned are the boundary's answer
AddImpl(held, code, returned) ==
    IF UnsafeWrapper(code) # NoErr
    THEN [err |-> UnsafeWrapper(code), handle |-> held]
    ELSE [err |-> NoErr, handle |-> IF returned # held THEN returned ELSE held]

\* The boundary appends in place, or moves the specifier to a new allocation and
\* releases the old one, or fails and leaves it alone.  Handed a pointer that is not a
\* live allocation the behaviour is undefined: the process aborts, or the call runs on
\* whatever the memory holds.
QAdd(n, g) ==
    /\ Alive /\ qvals[n] # NullPtr
    /\ LET h == qvals[n] IN
        IF Live(h)
        THEN /\ Len(heap[h].groups) < MaxGroups
             /\ \E out \in {"fail", "inplace", "moved"} :
                 /\ out = "moved" => HasFresh
                 /\ LET code == IF out = "fail" THEN NoMemory ELSE 0
                        returned == IF out = "moved" THEN Fresh ELSE h
                        grown == Append(heap[h].groups, g)
                        r == AddImpl(h, code, returned)
                    IN  /\ qvals' = [qvals EXCEPT ![n] = r.handle]
                        /\ heap' = CASE out = "fail" -> heap
                                     [] out = "inplace" ->
                                          [heap EXCEPT ![h] = [@ EXCEPT !.groups = grown]]
                                     [] out = "moved" ->
                                          [heap EXCEPT
                                             ![h] = [@ EXCEPT !.state = "moved"],
                                             ![returned] = [@ EXCEPT !.state = "live",
                                                                     !.groups = grown]]
                        /\ ret' = [QOutcome("qgroup_add", Tag(r.err), r.err, n, returned, <<>>)
                                      EXCEPT !.arg = g]
                        /\ calls' = <<Call("qgroup_inherit_add_group", <<>>, h, code)>>
        ELSE \E out \in {"abort", "proceed"} :
                 LET r == AddImpl(h, 0, h)
                 IN  /\ qvals' = [qvals EXCEPT ![n] = r.handle]
                     /\ heap' = heap
                     /\ ret' = [QOutcome("qgroup_add",
                                         IF out = "abort" THEN "Abort" ELSE "Ok",
                                         NoErr, n, h, <<>>) EXCEPT !.arg = g]
                     /\ calls' = <<Call("qgroup_inherit_add_group", <<>>, h, 0)>>
    /\ UNCHANGED fsVars

\* get_groups: groups is the array the boundary points the caller at, inside the
\* specifier's own allocation; the copy is returned, and a non-empty array is passed to
\* free
GetGroups(groups) ==
    [list |-> IF Len(groups) = 0 THEN <<>> ELSE groups, freed |-> Len(groups) # 0]

\* free of a pointer into the middle of an allocation is undefined: the allocator
\* aborts the process, or corrupts the allocation, or leaves it unharmed
QGetGroups(n) ==
    /\ Alive /\ qvals[n] # NullPtr
    /\ LET h == qvals[n]
           r == GetGroups(heap[h].groups)
           outs == IF ~Live(h) THEN {"abort", "proceed"}
                   ELSE IF r.freed THEN {"abort", "corrupt", "proceed"}
                   ELSE {"proceed"}
       IN  \E out \in outs :
            /\ heap' = IF out = "corrupt"
                       THEN [heap EXCEPT ![h] = [@ EXCEPT !.state = "corrupt"]]
                       ELSE heap
            /\ ret' = IF out = "abort"
                      THEN QOutcome("qgroup_get_groups", "Abort", NoErr, n, h, <<>>)
                      ELSE QOutcome("qgroup_get_groups", "Ok", NoErr, n, h, r.list)
            /\ calls' = <<Call("qgroup_inherit_get_groups", <<>>, h, 0)>>
                        \o (IF r.freed THEN <<Call("free", <<>>, h, 0)>> ELSE <<>>)
    /\ UNCHANGED <<fsVars, qvals>>

\* Drop for QgroupInherit: the boundary calls made on the handle held
DropQgroupInherit(handle) == <<Call("destroy_qgroup_inherit", <<>>, handle, 0)>>

\* destroying an allocation that is not live is undefined: abort, or carry on
QDrop(n) ==
    /\ Alive /\ qvals[n] # NullPtr /\ heap[qvals[n]].destroys < MaxDestroys
    /\ LET h == qvals[n]
           cs == DropQgroupInherit(h)
       IN  /\ calls' = cs
           /\ heap' = [heap EXCEPT ![h] =
                          [@ EXCEPT !.destroys = @ + Len(cs),
                                    !.state = IF Live(h) /\ Len(cs) > 0
                                              THEN "destroyed" ELSE @]]
           /\ \E out \in (IF Live(h) THEN {"proceed"} ELSE {"abort", "proceed"}) :
                ret' = QOutcome("qgroup_drop", IF out = "abort" THEN "Abort" ELSE "Ok",
                                NoErr, n, h, <<>>)
    /\ qvals' = [qvals EXCEPT ![n] = NullPtr]
    /\ UNCHANGED fsVars

NextQgroup ==
    \/ \E n \in QNames : QCreate(n)
    \/ \E a, b \in QNames : QClone(a, b)
    \/ \E a, b \in QNames : QMove(a, b)
    \/ \E n \in QNames : \E g \in GroupIds : QAdd(n, g)
    \/ \E n \in QNames : QGetGroups(n)
    \/ \E n \in QNames : QDrop(n)

\* the specifier does not touch the filesystem: one working directory is enough
InitQgroup == Init /\ cwd = Mnt

SpecQgroup == InitQgroup /\ [][NextQgroup]_vars

-----------------------------------------------------------------------------
(* The public create (src/subvolume/subvol.rs) *)

\* the caller's last call has returned
Returned == ret.tag \notin {"Running", "Abort"}

\* Subvolume::create: its body is a call of Subvolume::create on the converted arguments,
\* so every step is one more entry (val counts the frames); create_impl is not reached.
\* When the stack is full the process ends.
Create(path) ==
    /\ Alive
    /\ IF ret.tag = "Running"
       THEN /\ path = ret.path
            /\ ret' = IF ret.val < MaxFrames THEN [ret EXCEPT !.val = @ + 1]
                      ELSE [ret EXCEPT !.tag = "Abort"]
       ELSE ret' = [Outcome("create", "Running", NoErr, NoSv, <<>>, path, NoSv)
                       EXCEPT !.val = 1]
    /\ calls' = <<>>
    /\ UNCHANGED <<fsVars, qVars>>

NextCreate ==
    \/ \E p \in Slots : Create(p)
    \/ \E p \in {Mnt, PA, PC, PD} : Returned /\ Get(p)

SpecCreate == InitTree /\ [][NextCreate]_vars

-----------------------------------------------------------------------------
(* Path resolution: rel_path and abs_path of a Subvolume.  The tests of
   src/subvolume/subvol.rs call them; their bodies are not in the tree, so they follow
   the description of the path resolution helper in the design document. *)

\* what a caller's path can add below the root of a subvolume: nothing, or directories
Below == {<<>>, <<"d">>, <<"a">>, <<"d", "a">>, <<"a", "b">>}

\* walk the supplied path backward until its suffix is the relative subvolume path, then
\* strip that suffix
RECURSIVE MountPoint(_, _)
MountPoint(p, rel) ==
    IF Len(p) < Len(rel) THEN <<>>
    ELSE IF SubSeq(p, Len(p) - Len(rel) + 1, Len(p)) = rel THEN SubSeq(p, 1, Len(p) - Len(rel))
    ELSE MountPoint(SubSeq(p, 1, Len(p) - 1), rel)

\* the helper for the subvolume id and a path at or below its root: the boundary resolves
\* the relative path of the id (the same for every path of the filesystem), the mount
\* point is derived from the supplied path, the absolute path is their concatenation
PathResolution(id, tail) ==
    LET root == PathOfId(id)
        supplied == root \o tail
        r == BoundarySubvolumePath(root, id)
        mount == MountPoint(supplied, r.path)
    IN  /\ ret' = [Outcome("abs_path", Tag(UnsafeWrapper(r.code)), UnsafeWrapper(r.code),
                           SubvolumeNew(id, supplied), <<>>, supplied, NoSv)
                      EXCEPT !.val = [rel |-> r.path, mount |-> mount, abs |-> mount \o r.path]]
        /\ calls' = <<Call("subvolume_path", supplied, id, r.code)>>
        /\ UNCHANGED <<fsVars, qVars>>

NextPath == \E id \in LiveIds \ {BTRFS_FS_TREE_OBJECTID}, tail \in Below : PathResolution(id, tail)

SpecPath == InitTree /\ [][NextPath]_vars

-----------------------------------------------------------------------------
(* Creation with an inheritance specifier (src/subvolume/subvol.rs, src/qgroup.rs) *)

\* `qgroup.map(|v| v.into()).unwrap_or(null_mut())`: the closure takes the QgroupInherit
\* by value and keeps only its raw pointer.  The value ends inside the conversion: its
\* Drop runs there, unless the conversion forgets the value, and then no Drop runs at all.
QgroupPtr(qgroup, forgets) ==
    IF qgroup = None THEN [ptr |-> NullPtr, drops |-> <<>>]
    ELSE [ptr |-> qgroup[1],
          drops |-> IF forgets THEN <<>> ELSE DropQgroupInherit(qgroup[1])]

\* what the operation leaves of the specifier it was given
AfterConversion(h, q) ==
    [heap EXCEPT ![h] = [@ EXCEPT !.destroys = @ + Len(q.drops),
                                  !.state = IF Len(q.drops) > 0 THEN "destroyed" ELSE @]]

\* create_impl and snapshot_impl with Some(qgroup), the specifier of the caller's variable
\* n: the pointer is taken, the boundary creates at path and is handed the pointer, then a
\* fresh Subvolume::get.  A boundary that is handed a released specifier aborts the
\* process or carries on with what the memory holds.
CreateWithQgroup(op, fn, failCode, can, self, path, n) ==
    /\ Alive /\ qvals[n] # NullPtr /\ Live(qvals[n])
    /\ \E forgets, fail, aborts \in BOOLEAN :
        LET h == qvals[n]
            q == QgroupPtr(Some(h), forgets)
            p == Resolve(cwd, path)
            code == IF can /\ CanCreate(p) /\ ~fail /\ ~aborts THEN 0 ELSE failCode
            first == q.drops \o <<Call(fn, path, q.ptr, code)>>
        IN  /\ aborts => Len(q.drops) > 0
            /\ qvals' = [qvals EXCEPT ![n] = NullPtr]
            /\ heap' = AfterConversion(h, q)
            /\ subvols' = IF code = 0
                          THEN [subvols EXCEPT ![p] = BTRFS_FS_TREE_OBJECTID + allocated + 1]
                          ELSE subvols
            /\ allocated' = IF code = 0 THEN allocated + 1 ELSE allocated
            /\ UNCHANGED <<orphans, defaultId, cwd, iter, ro>>
            /\ IF aborts \/ UnsafeWrapper(code) # NoErr
               THEN /\ ret' = [Outcome(op, IF aborts THEN "Abort" ELSE "Err",
                                       UnsafeWrapper(code), NoSv, <<>>, path, self)
                                  EXCEPT !.name = n, !.handle = h]
                    /\ calls' = first
                    /\ cur' = cur
               ELSE /\ ret' = [Outcome(op, Tag(GetImpl(path)'.err), GetImpl(path)'.err,
                                       GetImpl(path)'.sv, <<>>, path, self)
                                  EXCEPT !.name = n, !.handle = h]
                    /\ calls' = first \o GetCalls(path)'
                    /\ Keep(GetImpl(path)'.sv)

CreateImplQgroup(path, n) ==
    CreateWithQgroup("create", "create_subvolume", SubvolCreateFailed, TRUE, NoSv, path, n)

SnapshotImplQgroup(dest, n) ==
    /\ cur # NoSv
    /\ CreateWithQgroup("snapshot", "create_snapshot", SnapCreateFailed,
                        PathKind(Resolve(cwd, cur.path)) = "subvol", cur, dest, n)

NextInherit ==
    \/ \E n \in QNames : QCreate(n)
    \/ \E p \in Slots, n \in QNames : CreateImplQgroup(p, n)
    \/ \E p \in Slots, n \in QNames : SnapshotImplQgroup(p, n)

SpecInherit == InitQgroup /\ [][NextInherit]_vars

-----------------------------------------------------------------------------
(* create_impl step by step, next to another process that changes the same filesystem
   (src/subvolume/subvol.rs).  Between the steps ret.tag says how far the call is, and
   ret.arg keeps the id the boundary's creation step gave the new subvolume, NoId
   when that step failed. *)

InCall == ret.tag \in {"Created", "Checked"}

\* create_impl, first boundary call: btrfs_util_create_subvolume; it reports no id
CreateStep(path) ==
    /\ ~InCall
    /\ \E fail \in BOOLEAN :
        LET p == Resolve(cwd, path)
            code == IF CanCreate(p) /\ ~fail THEN 0 ELSE SubvolCreateFailed
            id == BTRFS_FS_TREE_OBJECTID + allocated + 1
        IN  /\ subvols' = IF code = 0 THEN [subvols EXCEPT ![p] = id] ELSE subvols
            /\ allocated' = IF code = 0 THEN allocated + 1 ELSE allocated
            /\ ret' = IF UnsafeWrapper(code) # NoErr
                      THEN [Outcome("create", "Err", UnsafeWrapper(code), NoSv, <<>>, path, NoSv)
                               EXCEPT !.arg = NoId]
                      ELSE [Outcome("create", "Created", NoErr, NoSv, <<>>, path, NoSv)
                               EXCEPT !.arg = id]
            /\ calls' = <<Call("create_subvolume", path, 0, code)>>
            /\ UNCHANGED <<orphans, defaultId, cwd, cur, iter, ro, qVars>>

\* get_impl, first boundary call: is the path a subvolume root now
CheckStep ==
    /\ ret.tag = "Created"
    /\ ret' = IF IsSubvolumeImpl(ret.path) # NoErr
              THEN [ret EXCEPT !.tag = "Err", !.err = IsSubvolumeImpl(ret.path)]
              ELSE [ret EXCEPT !.tag = "Checked"]
    /\ calls' = Append(calls, Call("is_subvolume", ret.path, 0,
                                   BoundaryIsSubvolume(Resolve(cwd, ret.path))))
    /\ UNCHANGED <<fsVars, qVars>>

\* a slip that takes the new subvolume's id for known instead of looking it up
ResolveId_AssumeCreated(path) == [err |-> NoErr, sv |-> SubvolumeNew(ret.arg, path)]

\* get_impl, second boundary call: the id of the subvolume at the path now
ResolveId(path) ==
    LET r == BoundarySubvolumeId(Resolve(cwd, path))
    IN  IF UnsafeWrapper(r.code) # NoErr THEN [err |-> UnsafeWrapper(r.code), sv |-> NoSv]
        ELSE [err |-> NoErr, sv |-> SubvolumeNew(r.id, path)]

LookupStep ==
    /\ ret.tag = "Checked"
    /\ LET r == ResolveId(ret.path)
       IN  /\ ret' = [ret EXCEPT !.tag = Tag(r.err), !.err = r.err, !.sv = r.sv]
           /\ Keep(r.sv)
    /\ calls' = Append(calls, Call("subvolume_id", ret.path, 0,
                                   BoundarySubvolumeId(Resolve(cwd, ret.path)).code))
    /\ UNCHANGED <<subvols, orphans, allocated, defaultId, cwd, iter, ro, qVars>>

\* another process deletes a subvolume
OtherDelete(p) ==
    /\ PathKind(p) = "subvol" /\ BoundaryDeleteCode(p, 0) = 0
    /\ subvols' = [subvols EXCEPT ![p] = NoId]
    /\ orphans' = orphans \cup {subvols[p]}
    /\ UNCHANGED <<allocated, defaultId, cwd, cur, iter, ro, ret, calls, qVars>>

\* another process creates a subvolume: after a delete, the replacement
OtherCreate(p) ==
    /\ CanCreate(p)
    /\ subvols' = [subvols EXCEPT ![p] = BTRFS_FS_TREE_OBJECTID + allocated + 1]
    /\ allocated' = allocated + 1
    /\ UNCHANGED <<orphans, defaultId, cwd, cur, iter, ro, ret, calls, qVars>>

NextRace ==
    \/ \E p \in Slots : CreateStep(p)
    \/ CheckStep
    \/ LookupStep
    \/ \E p \in Slots : OtherDelete(p)
    \/ \E p \in Slots : OtherCreate(p)

SpecRace == Init /\ [][NextRace]_vars

-----------------------------------------------------------------------------
(* Claims about the subvolume operations, checked under Spec *)

\* C1: no Subvolume with an id below BTRFS_FS_TREE_OBJECTID is ever constructed; a
\* lookup by an id below it fails with the GlueError::BadId translation error.
C1_NoSubvolumeBelowRootId ==
    /\ (ret.tag = "Ok" /\ ret.sv # NoSv) => ret.sv.id >= BTRFS_FS_TREE_OBJECTID
    /\ \A i \in 1..Len(ret.list) : ret.list[i].id >= BTRFS_FS_TREE_OBJECTID
    /\ (ret.op = "try_from_u64" /\ calls[1].id < BTRFS_FS_TREE_OBJECTID /\ calls[1].code = 0)
          => ret.err = GlueErr("BadId", calls[1].id)

\* C2: is_subvolume answers without an error for every path: false for an ordinary
\* directory, a path on another filesystem and a nonexistent path, true for a subvolume
\* root.
C2_IsSubvolumeNeverErrs ==
    ret.op = "is_subvolume" => ret.tag = "Ok"

\* C3: get_default of the mount point right after a successful sv.set_default() returns
\* a Subvolume equal to sv (id and path, the derived equality).
C3_GetDefaultEqualsLastSet ==
    [][(/\ ret.op = "set_default" /\ ret.tag = "Ok"
        /\ ret'.op = "get_default" /\ ret'.tag = "Ok" /\ ret'.path = Mnt)
       => ret'.sv = ret.self]_vars

\* C4: once the subvolume at p is deleted, is_subvolume(p) does not report a subvolume,
\* and every successful Subvolume::deleted lists each deleted subvolume that the cleaner
\* has not reclaimed yet.
C4_DeletedListsUnreclaimed ==
    /\ (ret.op = "deleted" /\ ret.tag = "Ok")
          => \A id \in orphans : \E i \in 1..Len(ret.list) : ret.list[i].id = id
    /\ (ret.op = "is_subvolume" /\ ret.path \in Slots /\ subvols[ret.path] = NoId)
          => ret.tag = "Err"

\* C4 witness: the caller's subvolume was deleted and a later deleted() lists its id.
C4_Witness ==
    /\ ret.op = "deleted" /\ ret.tag = "Ok"
    /\ cur # NoSv /\ cur.id \in orphans
    /\ \E i \in 1..Len(ret.list) : ret.list[i] = SubvolumeNew(cur.id, Mnt)

-----------------------------------------------------------------------------
(* Claims about the subvolume iterator, checked under SpecIter *)

C6_IterationOrder ==
    \A i, j \in 1..Len(iter.yielded) :
        (/\ iter.yielded[i].tag = "Ok" /\ iter.yielded[j].tag = "Ok"
         /\ IsProperPrefix(iter.yielded[i].sv.path, iter.yielded[j].sv.path))
        => IF iter.flags = "POST_ORDER" THEN j < i ELSE i < j

\* C6 witness: a post-order iterator has yielded the child b and after it its parent a.
C6_Witness ==
    /\ iter.flags = "POST_ORDER"
    /\ \E i, j \in 1..Len(iter.yielded) :
          /\ i < j
          /\ iter.yielded[i].tag = "Ok" /\ iter.yielded[i].sv.path = <<"a", "b">>
          /\ iter.yielded[j].tag = "Ok" /\ iter.yielded[j].sv.path = <<"a">>

-----------------------------------------------------------------------------
(* Claims about sync, checked under SpecSync *)

\* C8: sync calls start-sync first; it calls wait-sync only after a successful
\* start-sync, with the same path and the transaction id start-sync produced; a failure
\* of either phase is the error returned, and Ok means both phases succeeded.
C8_SyncTwoPhases ==
    ret.op = "sync" =>
        /\ calls[1].fn = "start_sync"
        /\ calls[1].code # 0
              => (Len(calls) = 1 /\ ret.tag = "Err" /\ ret.err = LibErr(calls[1].code))
        /\ calls[1].code = 0
              => /\ Len(calls) = 2
                 /\ calls[2].fn = "wait_sync"
                 /\ calls[2].path = calls[1].path /\ calls[2].id = calls[1].id
                 /\ calls[2].code # 0 => (ret.tag = "Err" /\ ret.err = LibErr(calls[2].code))
                 /\ calls[2].code = 0 => ret.tag = "Ok"
        /\ ret.tag = "Ok" => \A i \in 1..Len(calls) : calls[i].code = 0

\* C8 witness: start-sync produced a transaction id, wait-sync took it and failed, and
\* sync returned the wait error.
C8_Witness ==
    /\ ret.op = "sync" /\ Len(calls) = 2
    /\ calls[1].id > 1 /\ calls[2].id = calls[1].id
    /\ calls[2].code = WaitSyncFailed /\ ret.err = LibErr(WaitSyncFailed)

-----------------------------------------------------------------------------
(* Claims about the inheritance specifier, checked under SpecQgroup *)

\* C9: every specifier allocation that is live is held by exactly one QgroupInherit
\* value, and no allocation has btrfs_util_destroy_qgroup_inherit called on it more
\* than once.
C9_SingleOwnerReleasedOnce ==
    \A h \in Handles :
        /\ heap[h].destroys <= 1
        /\ Live(h) => Cardinality({n \in QNames : qvals[n] = h}) = 1

\* C10: after a successful add the value holds the handle the boundary returned, and no
\* add, get_groups or drop hands the boundary a handle that an earlier add replaced.
C10_NoReplacedHandleUsed ==
    [][/\ (ret'.op = "qgroup_add" /\ ret'.tag = "Ok") => qvals'[ret'.name] = ret'.handle
       /\ \A i \in 1..Len(calls') :
             calls'[i].fn \in {"qgroup_inherit_add_group", "qgroup_inherit_get_groups",
                               "destroy_qgroup_inherit"}
                => heap[calls'[i].id].state # "moved"]_vars

\* C11: a specifier starts with no groups, every successful add appends its id to the
\* groups of the specifier, and get_groups returns exactly the groups of the specifier,
\* in insertion order.
C11_GetGroupsReturnsAdded ==
    [][/\ (ret'.op = "qgroup_create" /\ ret'.tag = "Ok")
             => heap'[qvals'[ret'.name]].groups = <<>>
       /\ (ret'.op = "qgroup_add" /\ Live(qvals[ret'.name]) /\ ret'.tag = "Ok")
             => heap'[qvals'[ret'.name]].groups
                   = Append(heap[qvals[ret'.name]].groups, ret'.arg)
       /\ (ret'.op = "qgroup_get_groups" /\ Live(qvals[ret'.name]))
             => (ret'.tag = "Ok" /\ ret'.list = heap[qvals[ret'.name]].groups)]_vars

\* C12: the scratch structure that SubvolumeInfo::try_from allocates is released exactly
\* once on every exit path, whether the boundary query succeeds or returns an error code.
C12_ScratchReleasedOnce ==
    ret.op = "info" =>
        /\ Cardinality({i \in DOMAIN calls : calls[i].fn = "box_into_raw"}) = 1
        /\ Cardinality({i \in DOMAIN calls : calls[i].fn = "box_drop"}) = 1

\* C13: SubvolumeInfo::try_from never panics on what the boundary returns: a malformed
\* uuid yields the translation error UuidError and an unrepresentable timestamp yields the
\* translation error BadTimespec.
C13_InfoNeverPanics ==
    (ret.op = "info" /\ calls[2].code = 0) =>
        /\ ret.tag # "Panic"
        /\ (\E f \in {"uuid", "parent_uuid", "received_uuid"} : ~UuidFromSlice(ret.arg[f]).ok)
              => (ret.tag = "Err" /\ ret.err.kind = "Glue" /\ ret.err.glue = "UuidError")
        /\ (\E f \in {"ctime", "otime", "stime", "rtime"} : ~Representable(ret.arg[f]))
              => (ret.tag = "Err" /\ ret.err.kind = "Glue" /\ ret.err.glue = "BadTimespec")

\* C14: stime and rtime are None exactly when the raw timespec has tv_sec = 0 and
\* tv_nsec = 0, and Some(time) for every other raw pair.
C14_TimeNoneOnlyForZero ==
    (ret.op = "info" /\ ret.tag = "Ok") =>
        \A f \in {"stime", "rtime"} :
            ret.val[f] = IF ret.arg[f] = Timespec(0, 0) THEN None
                         ELSE Some(LocalTimestamp(ret.arg[f]))

\* C15: parent_id, dir_id, stransid and rtransid are None exactly when the raw value is 0
\* and Some(raw) otherwise; parent_uuid and received_uuid are None exactly when the raw
\* bytes are all zero and Some(uuid) otherwise; id, flags, uuid, generation, ctransid and
\* otransid are copied unchanged; the top-level subvolume's info has id 5 and no parent_id,
\* dir_id, parent_uuid or received_uuid.
C15_ZeroIsNoneFieldByField ==
    (ret.op = "info" /\ ret.tag = "Ok") =>
        /\ \A f \in {"parent_id", "dir_id", "stransid", "rtransid"} :
              /\ ret.val[f] = None <=> ret.arg[f] = 0
              /\ ret.val[f] # None => ret.val[f] = Some(ret.arg[f])
        /\ \A f \in {"parent_uuid", "received_uuid"} :
              /\ ret.val[f] = None <=> (\A i \in 1..UuidLen : ret.arg[f][i] = 0)
              /\ ret.val[f] # None => ret.val[f] = Some(ret.arg[f])
        /\ \A f \in {"id", "flags", "uuid", "generation", "ctransid", "otransid"} :
              ret.val[f] = ret.arg[f]
        /\ ret.self.id = BTRFS_FS_TREE_OBJECTID =>
              /\ ret.val.id = BTRFS_FS_TREE_OBJECTID
              /\ \A f \in {"parent_id", "dir_id", "parent_uuid", "received_uuid"} :
                    ret.val[f] = None

\* the info of a subvolume below the top level: a parent, no send transaction
C15_Witness ==
    /\ ret.op = "info" /\ ret.tag = "Ok"
    /\ ret.self.id # BTRFS_FS_TREE_OBJECTID
    /\ ret.val.parent_id = Some(BTRFS_FS_TREE_OBJECTID)
    /\ ret.val.stransid = None
    /\ ret.val.received_uuid = Some(Uuid(255))

C18_GetChecksThenResolves ==
    ret.op = "get" =>
        LET p == Resolve(cwd, ret.path)
        IN  /\ PathKind(p) = "subvol" =>
                  /\ ret.tag = "Ok"
                  /\ ret.sv.path = ret.path
                  /\ ret.sv.id = IdAt(p)
                  /\ cur = ret.sv
                  /\ [i \in DOMAIN calls |-> calls[i].fn] = <<"is_subvolume", "subvolume_id">>
            /\ PathKind(p) = "dir" =>
                  /\ ret.tag = "Err"
                  /\ ret.err = LibErr(NotSubvolume)
                  /\ [i \in DOMAIN calls |-> calls[i].fn] = <<"is_subvolume">>

\* a lookup of the plain directory refused after the one check
C18_Witness ==
    /\ ret.op = "get"
    /\ PathKind(Resolve(cwd, ret.path)) = "dir"
    /\ ret.err = LibErr(NotSubvolume)
    /\ Len(calls) = 1

\* C19: the Subvolume that snapshot returns answers is_ro() with true when the flags
\* contain READ_ONLY and with false when the flags are None or lack READ_ONLY, and a write
\* under a read-only snapshot fails.
C19_SnapshotReadOnlyRoundTrip ==
    [][(ret.op = "snapshot" /\ ret.tag = "Ok") =>
          LET readOnly == ret.arg # None /\ HasFlag(ret.arg[1], SNAPSHOT_READ_ONLY)
          IN  /\ cur = ret.sv
              /\ ret'.op = "is_ro" => (ret'.self = ret.sv /\ ret'.tag = "Ok"
                                       /\ ret'.val = readOnly)
              /\ (ret'.op = "create_file" /\ readOnly) => ret'.tag = "Err"]_vars

\* a read-only snapshot was taken and returned
C19_Witness ==
    /\ ret.op = "snapshot" /\ ret.tag = "Ok"
    /\ ret.arg = Some(SNAPSHOT_READ_ONLY)
    /\ ret.sv.id \in ro
    /\ ~CanWrite(ret.sv)

\* C20: a newly created subvolume is not read-only; a successful set_ro leaves the flag at
\* its argument and nothing but a set_ro changes it, so is_ro returns the argument of the
\* last successful set_ro; a file can be created under the subvolume exactly while the flag
\* is false.
C20_SetRoThenIsRo ==
    [][LET flag == IdAt(Resolve(cwd, cur.path)) \in ro
       IN  /\ (ret'.op = "create" /\ ret'.tag = "Ok") => ret'.sv.id \notin ro'
           /\ (ret.op = "create" /\ ret.tag = "Ok" /\ ret'.op = "is_ro")
                 => (ret'.tag = "Ok" /\ ret'.val = FALSE)
           /\ (ret'.op = "set_ro" /\ ret'.tag = "Ok")
                 => (IdAt(Resolve(cwd, cur.path)) \in ro') = ret'.arg
           /\ (ret'.op = "set_ro" /\ ret'.tag = "Err") => ro' = ro
           /\ ret'.op = "is_ro" => (ro' = ro /\ ret'.tag = "Ok" /\ ret'.val = flag)
           /\ ret'.op = "create_file" => (ro' = ro /\ (ret'.tag = "Err") = flag)
           /\ (ret.op = "set_ro" /\ ret.tag = "Ok" /\ ret'.op = "is_ro")
                 => ret'.val = ret.arg
           /\ (ret.op = "set_ro" /\ ret.tag = "Ok" /\ ret'.op = "create_file")
                 => (ret'.tag = "Err") = ret.arg]_vars

\* a created subvolume made read-only
C20_Witness ==
    /\ ret.op = "set_ro" /\ ret.tag = "Ok" /\ ret.arg = TRUE
    /\ ret.self.path = PA
    /\ ret.self.id \in ro
    /\ ~CanWrite(ret.self)

\* C21: when the boundary creation call succeeds, create returns the result of a fresh
\* lookup of the same path (the creation call reports no id); when the creation call fails,
\* create returns that error and makes no lookup.
C21_CreateReturnsFreshLookup ==
    ret.op = "create" =>
        /\ calls[1].fn = "create_subvolume"
        /\ calls[1].path = ret.path
        /\ calls[1].code = 0 =>
              /\ [i \in DOMAIN calls |-> calls[i].fn]
                    = <<"create_subvolume", "is_subvolume", "subvolume_id">>
              /\ \A i \in DOMAIN calls : calls[i].path = ret.path
              /\ ret.tag = "Ok"
              /\ ret.sv = SubvolumeNew(IdAt(Resolve(cwd, ret.path)), ret.path)
              /\ cur = ret.sv
        /\ calls[1].code # 0 =>
              /\ ret.tag = "Err"
              /\ ret.err = LibErr(calls[1].code)
              /\ Len(calls) = 1

\* a nested subvolume created and looked up
C21_Witness ==
    /\ ret.op = "create" /\ ret.tag = "Ok"
    /\ Resolve(cwd, ret.path) = PB
    /\ ret.sv.id = subvols[PB]
    /\ Len(calls) = 3

\* C22: a call of the public Subvolume::create reaches the boundary creation call and
\* returns a success value or a typed failure; it does not enter itself again.
C22_CreateReturns ==
    [][(ret.op = "create" /\ ret.tag = "Running") =>
          /\ ret'.op = "create"
          /\ ret'.tag \in {"Ok", "Err"}
          /\ Len(calls') >= 1
          /\ calls'[1].fn = "create_subvolume"]_vars

C24_IdBufferReleasedOnce ==
    (ret.op \in {"deleted", "privileged_deleted"} /\ ~ret.arg.ptr_null) =>
        Cardinality({i \in DOMAIN calls : calls[i].fn = "free"}) = 1

\* C25: the sequence of items is finite whatever the cursor answers: every call of next
\* that returns an item instead of None takes one element off the cursor's finite walk, so
\* repeated calls reach None; and once None was returned no later call yields a subvolume.
C25_SequenceFinite ==
    [][ret'.op = "iter_next" =>
          /\ ret'.tag # "None" => Len(iter'.queue) < Len(iter.queue)
          /\ (\E i \in 1..Len(iter.yielded) : iter.yielded[i].tag = "None")
                => ret'.tag # "Ok"]_vars

\* C26: for a subvolume created at m/r the path resolution yields the relative path r and
\* the absolute path m/r, also when the supplied path lies below the subvolume root.
C26_PathResolved ==
    ret.op = "abs_path" =>
        /\ ret.val.rel = RelToMnt(PathOfId(ret.sv.id))
        /\ ret.val.mount = Mnt
        /\ ret.val.abs = PathOfId(ret.sv.id)

\* C27: the specifier handed to the boundary creation call of create or snapshot is not
\* released before that call, and is released exactly once after it, whether the
\* operation returns Ok or Err.
C27_SpecifierLiveDuringCall ==
    [][(ret'.op \in {"create", "snapshot"} /\ ret'.handle # NullPtr) =>
          LET at == CHOOSE i \in 1..Len(calls') :
                        calls'[i].fn \in {"create_subvolume", "create_snapshot"}
              released(from, to) ==
                  {i \in from..to : /\ calls'[i].fn = "destroy_qgroup_inherit"
                                    /\ calls'[i].id = ret'.handle}
          IN  /\ released(1, at) = {}
              /\ heap[ret'.handle].destroys + Cardinality(released(at, Len(calls'))) = 1
              /\ heap'[ret'.handle].destroys = 1]_vars

\* C28: for every element the cursor reports with a path and an id, next yields a
\* Subvolume that has exactly that id and lies below the iterator's root, whatever the
\* working directory of the process is.
C28_YieldedIsCursorElement ==
    (ret.op = "iter_next" /\ calls[1].code = 0) =>
        /\ ret.tag = "Ok"
        /\ ret.sv.id = calls[1].id
        /\ PathKind(Resolve(cwd, ret.sv.path)) = "subvol"
        /\ IdAt(Resolve(cwd, ret.sv.path)) = calls[1].id
        /\ IsProperPrefix(Resolve(cwd, iter.root), Resolve(cwd, ret.sv.path))

\* C29: next to a process that deletes or replaces subvolumes between the boundary
\* calls, create(p) returning Ok(sv) means sv has the id of the subvolume the call's own
\* creation step created, and after a successful creation step create returns no error.
C29_CreateReturnsOwnSubvolume ==
    (ret.op = "create" /\ ret.arg # NoId) =>
        /\ ret.tag # "Err"
        /\ ret.tag = "Ok" => ret.sv.id = ret.arg

\* C29 amended: create(p) returns what its fresh lookup finds.  Ok(sv) carries the id of
\* the subvolume that is at p when the lookup is answered, which is the created one
\* whenever that is still at p; after a successful creation step create returns an error
\* only when the created subvolume is no longer at p.
C29_CreateReturnsLookedUp ==
    [][(ret.op = "create" /\ InCall) =>
          /\ (ret.tag = "Checked" /\ ret'.tag = "Ok")
                => /\ ret'.sv.id = IdAt(Resolve(cwd, ret.path))
                   /\ subvols[Resolve(cwd, ret.path)] = ret.arg => ret'.sv.id = ret.arg
          /\ ret'.tag = "Err" => subvols[Resolve(cwd, ret.path)] # ret.arg]_vars

\* C29 witness: create returned Ok with the id of a replacement that another process put
\* at the path after the creation step.
C29_Witness ==
    /\ ret.op = "create" /\ ret.tag = "Ok" /\ ret.arg # NoId
    /\ ret.sv.id # ret.arg
    /\ ret.arg \in orphans

\* C30: get_groups on a live specifier leaves it as it was: no memory of the handle is
\* released or invalidated, the value keeps its handle and the call returns, so that a
\* repeated get_groups, an add or a drop finds the same live specifier.
C30_GetGroupsLeavesSpecifier ==
    [][(ret'.op = "qgroup_get_groups" /\ Live(qvals[ret'.name])) =>
          /\ heap' = heap
          /\ qvals' = qvals
          /\ ret'.tag = "Ok"
          /\ \A i \in 1..Len(calls') : calls'[i].fn # "free"]_vars

====
